---- MODULE Spec2Model ----
(***************************************************************************)
(* Monte-Carlo Tree Search move selection (getBestMoveMCTS) over an        *)
(* abstract rules engine standing in for chess.js.                         *)
(*                                                                         *)
(* Numbers that are fractions in the source are kept as scaled integers:   *)
(*   wins2   = 2 * wins          (wins grows in steps of 0.5)              *)
(*   result  = 100 * result      (the rollout value 0.5 + score / 100)     *)
(*   uctValue is in units of 1e-7                                          *)
(***************************************************************************)
EXTENDS Integers, Sequences, FiniteSets, TLC

VARIABLES
    pc,         \* position of the caller / of getBestMoveMCTS in its code
    fen,        \* argument of the running (or last) call
    tree,       \* the MCTSNode objects of the call, tree[1] is root
    node,       \* local `node`: index into tree, 0 is null
    gameClone,  \* local `gameClone`: a Chess object
    depth,      \* local `depth` of the simulation loop
    result,     \* local `result` of the cycle (times 100)
    elapsed,    \* last value read for Date.now() - startTime
    cycles,     \* number of completed passes of the while loop in this call
    stops,      \* the values the call would have returned at its budget checks so far
    bestMove,   \* value returned by the last call
    calls,      \* number of calls made so far
    prev,       \* fen and value of the call before the running (or last) one
    cyc,        \* the running pass of the loop: the tree it started from, the
                \* node where selection stopped, the tree and node its
                \* backpropagation started from
    sel,        \* a parent with children, and the child selectChild picked
    ui          \* the App component: its state, the values its last render
                \* closed over, the Chess objects it created, its pending timer

vars == <<pc, fen, tree, node, gameClone, depth, result, elapsed, cycles,
          stops, bestMove, calls, prev, cyc, sel, ui>>

----------------------------------------------------------------------------
(* Bounds of the model *)

MaxCycles == 4      \* passes of the while loop explored per call
MaxCalls == 2       \* successive calls explored
MaxKids == 3        \* children of the parent handed to selectChild alone
MaxVisits == 2      \* visits of a child handed to selectChild alone
MaxGames == 3       \* Chess objects the App creates, the first one included

(* Program constants *)

TIME_LIMIT_MS == 1000
EXPLORATION_CONSTANT == 1414        \* 1.414, in thousandths
MAX_SIMULATION_DEPTH == 50
MAX_VALUE == 2000000000             \* Number.MAX_VALUE: above every finite uctValue

NoMove == "null"                    \* the null of `string | null`

----------------------------------------------------------------------------
(* The rules engine (chess.js), as far as the search consults it.  A       *)
(* position is [k, n]; the side to move is white when n is even.           *)

ChainEnd == 53      \* a line of forced moves longer than MAX_SIMULATION_DEPTH

Pos(k, n) == [k |-> k, n |-> n]

Positions ==
    {Pos(k, n) : k \in {"open", "forced", "mate", "stale", "dead", "shuf", "pair", "trade"},
                 n \in 0..1}
    \cup {Pos("chain", n) : n \in 0..ChainEnd}

PosTurn(p) == IF p.n % 2 = 0 THEN "w" ELSE "b"

\* game.moves(): the legal moves, in the engine's order
PosMoves(p) ==
    CASE p.k = "open" -> <<"Qh5", "Ra1", "Kg1">>
      [] p.k = "forced" -> <<"Kh8">>
      [] p.k = "pair" -> <<"Nf3", "Nc3">>
      [] p.k = "shuf" -> <<"Kg2", "Qxf7">>
      [] p.k = "dead" -> <<"Kd2">>
      [] p.k = "trade" -> <<"Kxd1">>
      [] p.k = "chain" -> IF p.n < ChainEnd THEN <<"Rb1">> ELSE <<>>
      [] OTHER -> <<>>

\* the position after a legal move
PosAfter(p, m) ==
    CASE p.k = "open" /\ m = "Qh5" -> Pos("mate", 1 - p.n)
      [] p.k = "open" /\ m = "Ra1" -> Pos("chain", 1 - p.n)
      [] p.k = "open" /\ m = "Kg1" -> Pos("shuf", 1 - p.n)
      [] p.k = "forced" -> Pos("pair", 1 - p.n)
      [] p.k = "pair" /\ m = "Nf3" -> Pos("stale", 1 - p.n)
      [] p.k = "pair" /\ m = "Nc3" -> Pos("shuf", 1 - p.n)
      [] p.k = "shuf" /\ m = "Kg2" -> Pos("shuf", 1 - p.n)
      [] p.k = "shuf" /\ m = "Qxf7" -> Pos("mate", 1 - p.n)
      [] p.k = "dead" -> Pos("dead", 1 - p.n)
      [] p.k = "trade" -> Pos("dead", 1 - p.n)
      [] p.k = "chain" -> Pos("chain", p.n + 1)
      [] OTHER -> p

InSeq(x, s) == \E i \in 1..Len(s) : s[i] = x

\* game.board(): the pieces on the board
Piece(t, c) == [type |-> t, color |-> c]

PosBoard(p) ==
    CASE p.k = "chain" ->
            <<Piece("k", "w"), Piece("k", "b"), Piece("q", "w"), Piece("q", "w"),
              Piece("q", "w"), Piece("q", "w"), Piece("q", "w"), Piece("q", "w"),
              Piece("r", "w"), Piece("p", "b")>>
      [] p.k = "dead" -> <<Piece("k", "w"), Piece("k", "b")>>
      [] OTHER -> <<Piece("k", "w"), Piece("k", "b"), Piece("q", "w"), Piece("r", "b"),
                    Piece("n", "b"), Piece("p", "w")>>

\* a Chess object: the position and the positions it went through
Chess(p) == [pos |-> p, hist |-> <<p>>]

Turn(g) == PosTurn(g.pos)

Moves(g) == PosMoves(g.pos)

Board(g) == PosBoard(g.pos)

\* game.fen()
Fen(g) == g.pos

\* game.move(m), m a legal move
Move(g, m) ==
    LET q == PosAfter(g.pos, m)
    IN  [pos |-> q, hist |-> Append(g.hist, q)]

IsCheckmate(g) == g.pos.k = "mate"

IsStalemate(g) ==
    g.pos.k = "stale" \/ (g.pos.k = "chain" /\ g.pos.n = ChainEnd)

IsThreefoldRepetition(g) ==
    Cardinality({i \in 1..Len(g.hist) : g.hist[i] = g.pos}) >= 3

\* insufficient material, the fifty-move rule, stalemate or repetition
IsDraw(g) ==
    g.pos.k = "dead" \/ IsStalemate(g) \/ IsThreefoldRepetition(g)

IsGameOver(g) == IsCheckmate(g) \/ IsDraw(g)

----------------------------------------------------------------------------
(* class MCTSNode *)

\* constructor(game, parent, move)
MCTSNode(game, parent, move) ==
    [parent |-> parent,
     children |-> <<>>,
     visits |-> 0,
     wins2 |-> 0,
     move |-> move,
     playerJustMoved |-> IF Turn(game) = "w" THEN "b" ELSE "w",
     untriedMoves |-> Moves(game)]

RECURSIVE SqrtSearch(_, _, _)
\* the largest r in lo..hi with r * r <= x
SqrtSearch(x, lo, hi) ==
    IF lo >= hi THEN lo
    ELSE LET mid == (lo + hi + 1) \div 2
         IN  IF mid * mid <= x THEN SqrtSearch(x, mid, hi)
             ELSE SqrtSearch(x, lo, mid - 1)

\* Math.sqrt, rounded down
Sqrt(x) == SqrtSearch(x, 0, 46340)

\* Math.log(n) in units of 1e-8, rounded down, for n in 1..10
Log8 == <<0, 69314718, 109861228, 138629436, 160943791, 179175946,
          194591014, 207944154, 219722457, 230258509>>

\* uctValue() without the infinite priority of an unvisited node
uctValueNoInfinity(wins2, visits, parentVisits) ==
    IF visits = 0 THEN 0
    ELSE (wins2 * 5000000) \div visits
         + EXPLORATION_CONSTANT * Sqrt(Log8[parentVisits] \div visits)

\* uctValue() of a node with the given statistics under a parent with
\* parentVisits visits, in units of 1e-7
uctValue(wins2, visits, parentVisits) ==
    IF visits = 0 THEN MAX_VALUE
    ELSE (wins2 * 5000000) \div visits
         + EXPLORATION_CONSTANT * Sqrt(Log8[parentVisits] \div visits)

\* uctValue() of tree node c
NodeUct(tr, c) ==
    uctValue(tr[c].wins2, tr[c].visits, tr[tr[c].parent].visits)

RECURSIVE Reduce(_, _, _, _)
\* kids.reduce((prev, current) => uct(prev) > uct(current) ? prev : current),
\* from element i on, with prev the value accumulated so far; uct[k] is the
\* uctValue of kids[k]
Reduce(uct, i, n, prevIdx) ==
    IF i > n THEN prevIdx
    ELSE Reduce(uct, i + 1, n,
                IF uct[prevIdx] > uct[i] THEN prevIdx ELSE i)

\* selectChild(): the index in tr of the child picked among tr[p].children
selectChild(tr, p) ==
    LET kids == tr[p].children
        uct == [k \in 1..Len(kids) |-> NodeUct(tr, kids[k])]
    IN  kids[Reduce(uct, 2, Len(kids), 1)]

\* array.filter(m => m !== move)
RECURSIVE Filter(_, _)
Filter(s, move) ==
    IF s = <<>> THEN <<>>
    ELSE IF s[1] = move THEN Filter(Tail(s), move)
         ELSE <<s[1]>> \o Filter(Tail(s), move)

\* addChild() that pushes the child onto the children of root
addChildToRoot(tr, p, move, game) ==
    LET newGame == Move(Chess(Fen(game)), move)
        child == MCTSNode(newGame, p, move)
        c == Len(tr) + 1
        tr1 == [tr EXCEPT ![p].untriedMoves = Filter(@, move)]
    IN  Append([tr1 EXCEPT ![1].children = Append(@, c)], child)

\* addChild() that leaves the move among the untried moves
addChildNoFilter(tr, p, move, game) ==
    LET newGame == Move(Chess(Fen(game)), move)
        child == MCTSNode(newGame, p, move)
        c == Len(tr) + 1
    IN  Append([tr EXCEPT ![p].children = Append(@, c)], child)

\* addChild(move, game) on node p: the tree with the child appended
addChild(tr, p, move, game) ==
    LET newGame == Move(Chess(Fen(game)), move)
        child == MCTSNode(newGame, p, move)
        c == Len(tr) + 1
    IN  Append([tr EXCEPT ![p].untriedMoves = Filter(@, move),
                          ![p].children = Append(@, c)],
               child)

\* update() that counts no visit at a node without parent
updateNotRoot(tr, i, val2) ==
    [tr EXCEPT ![i].visits = IF tr[i].parent = 0 THEN @ ELSE @ + 1,
               ![i].wins2 = @ + val2]

\* update(result) on node i, val2 is twice the value credited
update(tr, i, val2) ==
    [tr EXCEPT ![i].visits = @ + 1, ![i].wins2 = @ + val2]

\* getSimulationResult(game, playerJustMoved), times 100
getSimulationResult(game, playerJustMoved) ==
    IF IsCheckmate(game)
    THEN LET winner == IF Turn(game) = "w" THEN "b" ELSE "w"
         IN  IF winner = playerJustMoved THEN 100 ELSE 0
    ELSE 50

\* values[p.type]
PieceValue(t) ==
    CASE t = "p" -> 1 [] t = "n" -> 3 [] t = "b" -> 3
      [] t = "r" -> 5 [] t = "q" -> 9 [] OTHER -> 0

RECURSIVE Score(_, _)
\* the material score of the board for playerJustMoved
Score(board, playerJustMoved) ==
    IF board = <<>> THEN 0
    ELSE (IF board[1].color = playerJustMoved
          THEN PieceValue(board[1].type) ELSE 0 - PieceValue(board[1].type))
         + Score(Tail(board), playerJustMoved)

\* the result of an incomplete simulation without the clamp to 0..1
HeuristicNoClamp(game, playerJustMoved) ==
    50 + Score(Board(game), playerJustMoved)

\* the result of an incomplete simulation, times 100
Heuristic(game, playerJustMoved) ==
    LET r == 50 + Score(Board(game), playerJustMoved)
    IN  IF r > 100 THEN 100 ELSE IF r < 0 THEN 0 ELSE r

\* a value that credits the material estimate when no side was mated, times 2
NodeValFromMaterial(game, playerJustMoved) ==
    IF IsCheckmate(game)
    THEN (IF Turn(game) # playerJustMoved THEN 2 ELSE 0)
    ELSE IF IsGameOver(game) THEN 1
    ELSE Heuristic(game, playerJustMoved) \div 50

\* the value credited to a node in the backpropagation loop, times 2
NodeVal2(game, playerJustMoved) ==
    LET winner == IF IsCheckmate(game)
                  THEN (IF Turn(game) = "w" THEN "b" ELSE "w")
                  ELSE "draw"
    IN  IF winner = playerJustMoved THEN 2
        ELSE IF winner # "draw" THEN 0 ELSE 1

RECURSIVE InsertBeforeEqual(_, _, _)
\* c inserted into the sorted list s before the nodes with the same visits
InsertBeforeEqual(tr, s, c) ==
    IF s = <<>> THEN <<c>>
    ELSE IF tr[s[1]].visits > tr[c].visits
         THEN <<s[1]>> \o InsertBeforeEqual(tr, Tail(s), c)
         ELSE <<c>> \o s

RECURSIVE InsertByVisits(_, _, _)
\* c inserted into the sorted list s behind every node with visits >= its own
InsertByVisits(tr, s, c) ==
    IF s = <<>> THEN <<c>>
    ELSE IF tr[s[1]].visits >= tr[c].visits
         THEN <<s[1]>> \o InsertByVisits(tr, Tail(s), c)
         ELSE <<c>> \o s

RECURSIVE SortByVisits(_, _)
\* kids.sort((a, b) => b.visits - a.visits): descending and stable
SortByVisits(tr, kids) ==
    IF kids = <<>> THEN <<>>
    ELSE InsertByVisits(tr, SortByVisits(tr, SubSeq(kids, 1, Len(kids) - 1)),
                        kids[Len(kids)])

\* a return statement that takes the move of the node created last
RobustChildLastNode(tr) ==
    IF Len(tr) > 1 THEN tr[Len(tr)].move ELSE NoMove

\* the value of the return statement of getBestMoveMCTS
RobustChild(tr) ==
    LET sortedChildren == SortByVisits(tr, tr[1].children)
    IN  IF Len(sortedChildren) > 0 THEN tr[sortedChildren[1]].move ELSE NoMove

----------------------------------------------------------------------------
(* getBestMoveMCTS(fen) *)

\* the values Date.now() - startTime is read as; readings never decrease
ClockReadings == {0, 999, 1000}

NoPosition == Pos("none", 0)

NoCall == [fen |-> NoPosition, move |-> NoMove]

\* what the caller keeps of a call that returned
LastCall ==
    IF pc = "done"
    THEN [fen |-> fen, move |-> bestMove]
    ELSE prev

NoCycle == [start |-> <<>>, stop |-> 0, stopOver |-> FALSE, pre |-> <<>>, leaf |-> 0]

\* a loop condition that still holds when the budget is just used up
BudgetLeftInclusive(t) == t <= TIME_LIMIT_MS

\* line 137: Date.now() - startTime < TIME_LIMIT_MS
BudgetLeft(t) == t < TIME_LIMIT_MS

\* a selection that descends as soon as there is a child
HasChildren(tr, n) == Len(tr[n].children) > 0

\* line 143: node.untriedMoves.length === 0 && node.children.length > 0
FullyExpanded(tr, n) ==
    Len(tr[n].untriedMoves) = 0 /\ Len(tr[n].children) > 0

\* an expansion that needs the node to have been visited
CanExpandVisited(tr, n, game) ==
    tr[n].visits > 0 /\ Len(tr[n].untriedMoves) > 0 /\ ~IsGameOver(game)

\* line 150: node.untriedMoves.length > 0 && !gameClone.isGameOver()
CanExpand(tr, n, game) ==
    Len(tr[n].untriedMoves) > 0 /\ ~IsGameOver(game)

\* a simulation loop that runs one move beyond the cap
DepthLeftInclusive(d) == d <= MAX_SIMULATION_DEPTH

\* line 159: depth < MAX_SIMULATION_DEPTH
DepthLeft(d) == d < MAX_SIMULATION_DEPTH

\* a backpropagation that ends after the first node
ParentNull(tr, n) == 0

\* node = node.parent in the backpropagation loop
ParentOf(tr, n) == tr[n].parent

\* rootGame.isGameOver() replaced by a test for no legal moves
RootHasNoMoves(f) == Len(Moves(Chess(f))) = 0

\* line 131: rootGame.isGameOver()
RootIsGameOver(f) == IsGameOver(Chess(f))

\* a root kept from the call before
RootReused(tr, f) ==
    IF tr # <<>> THEN tr ELSE <<MCTSNode(Chess(f), 0, NoMove)>>

\* line 133: the tree of a call, root alone; tr is the tree of the call before
RootTree(tr, f) == <<MCTSNode(Chess(f), 0, NoMove)>>

\* new Chess(): the position a game of the App starts from
StartPos == Pos("pair", 0)

\* game.fen() of a game of the App: the position and the move counters
UiFen(g) == [pos |-> g.pos, moves |-> Len(g.hist) - 1]

\* no handler or callback of the App has run yet
NoEvent ==
    [kind |-> "none", game |-> 0, moved |-> FALSE, move |-> NoMove,
     searched |-> NoPosition, mode |-> "PvP", turn |-> "w", thinking |-> FALSE]

\* the App after its first render: lines 69-78, and the effect of lines
\* 121-141 has run once without starting a timer
AppInit ==
    [games |-> <<Chess(StartPos)>>,
     game |-> 1,
     fen |-> UiFen(Chess(StartPos)),
     gameMode |-> "PvP",
     isAiThinking |-> FALSE,
     shown |-> [game |-> 1, fen |-> UiFen(Chess(StartPos)), gameMode |-> "PvP",
                isAiThinking |-> FALSE],
     deps |-> [fen |-> UiFen(Chess(StartPos)), gameMode |-> "PvP", game |-> 1],
     timer |-> 0,
     ev |-> NoEvent]

Init ==
    /\ pc = "idle"
    /\ fen = NoPosition
    /\ tree = <<>>
    /\ node = 0
    /\ gameClone = Chess(NoPosition)
    /\ depth = 0
    /\ result = 0
    /\ elapsed = 0
    /\ cycles = 0
    /\ stops = {}
    /\ bestMove = NoMove
    /\ calls = 0
    /\ prev = NoCall
    /\ cyc = NoCycle
    /\ sel = [tree |-> <<>>, picked |-> 0]
    /\ ui = AppInit

\* the locals of a new activation
Enter(f) ==
    /\ pc \in {"idle", "done"}
    /\ calls < MaxCalls
    /\ calls' = calls + 1
    /\ prev' = LastCall
    /\ fen' = f
    /\ node' = 0
    /\ gameClone' = Chess(f)
    /\ depth' = 0
    /\ result' = 0
    /\ elapsed' = 0
    /\ cycles' = 0
    /\ stops' = {}
    /\ cyc' = NoCycle
    /\ UNCHANGED <<sel, ui>>

\* lines 128-131: the game is over, return null
ReturnGameOver(f) ==
    /\ Enter(f)
    /\ RootIsGameOver(f)
    /\ tree' = <<>>
    /\ bestMove' = NoMove
    /\ pc' = "done"

\* lines 128-134: build root and read startTime
BuildRoot(f) ==
    /\ Enter(f)
    /\ ~RootIsGameOver(f)
    /\ tree' = RootTree(tree, f)
    /\ bestMove' = bestMove
    /\ pc' = "loop"

\* line 137 holds, lines 138-139
StartCycle(t) ==
    /\ pc = "loop"
    /\ t >= elapsed
    /\ BudgetLeft(t)
    /\ cycles < MaxCycles
    /\ elapsed' = t
    /\ node' = 1
    /\ gameClone' = Chess(fen)
    /\ stops' = stops \cup {RobustChild(tree)}
    /\ cyc' = [NoCycle EXCEPT !.start = tree]
    /\ pc' = "select"
    /\ UNCHANGED <<fen, tree, depth, result, cycles, bestMove, calls, prev, sel, ui>>

\* line 137 fails
BudgetElapsed(t) ==
    /\ pc = "loop"
    /\ t >= elapsed
    /\ ~BudgetLeft(t)
    /\ elapsed' = t
    /\ pc' = "best"
    /\ UNCHANGED <<fen, tree, node, gameClone, depth, result, cycles, stops,
                   bestMove, calls, prev, cyc, sel, ui>>

\* lines 143-146: one pass of the selection loop
Select ==
    /\ pc = "select"
    /\ FullyExpanded(tree, node)
    /\ LET c == selectChild(tree, node)
       IN  /\ node' = c
           /\ gameClone' = Move(gameClone, tree[c].move)
    /\ UNCHANGED <<pc, fen, tree, depth, result, elapsed, cycles, stops,
                   bestMove, calls, prev, cyc, sel, ui>>

\* line 143 fails
SelectEnd ==
    /\ pc = "select"
    /\ ~FullyExpanded(tree, node)
    /\ cyc' = [cyc EXCEPT !.stop = node, !.stopOver = IsGameOver(gameClone)]
    /\ pc' = "expand"
    /\ UNCHANGED <<fen, tree, node, gameClone, depth, result, elapsed, cycles,
                   stops, bestMove, calls, prev, sel, ui>>

\* lines 150-154 and 158, r is Math.floor(Math.random() * untriedMoves.length)
Expand(r) ==
    /\ pc = "expand"
    /\ CanExpand(tree, node, gameClone)
    /\ r \in 0..(Len(tree[node].untriedMoves) - 1)
    /\ LET move == tree[node].untriedMoves[r + 1]
       IN  /\ tree' = addChild(tree, node, move, gameClone)
           /\ node' = Len(tree) + 1
           /\ gameClone' = Move(gameClone, move)
    /\ depth' = 0
    /\ pc' = "simulate"
    /\ UNCHANGED <<fen, result, elapsed, cycles, stops, bestMove, calls, prev, cyc,
                   sel, ui>>

\* line 150 fails, line 158
ExpandSkip ==
    /\ pc = "expand"
    /\ ~CanExpand(tree, node, gameClone)
    /\ depth' = 0
    /\ pc' = "simulate"
    /\ UNCHANGED <<fen, tree, node, gameClone, result, elapsed, cycles, stops,
                   bestMove, calls, prev, cyc, sel, ui>>

\* lines 159-164: one random move, r is Math.floor(Math.random() * moves.length)
Simulate(r) ==
    /\ pc = "simulate"
    /\ ~IsGameOver(gameClone) /\ DepthLeft(depth)
    /\ r \in 0..(Len(Moves(gameClone)) - 1)
    /\ gameClone' = Move(gameClone, Moves(gameClone)[r + 1])
    /\ depth' = depth + 1
    /\ UNCHANGED <<pc, fen, tree, node, result, elapsed, cycles, stops,
                   bestMove, calls, prev, cyc, sel, ui>>

\* line 159 fails, lines 168-188
SimulateEnd ==
    /\ pc = "simulate"
    /\ ~(~IsGameOver(gameClone) /\ DepthLeft(depth))
    /\ cyc' = [cyc EXCEPT !.pre = tree, !.leaf = node]
    /\ result' = IF IsGameOver(gameClone)
                 THEN getSimulationResult(gameClone, tree[node].playerJustMoved)
                 ELSE Heuristic(gameClone, tree[node].playerJustMoved)
    /\ pc' = "backprop"
    /\ UNCHANGED <<fen, tree, node, gameClone, depth, elapsed, cycles, stops,
                   bestMove, calls, prev, sel, ui>>

\* lines 191-229: one pass of the backpropagation loop
Backpropagate ==
    /\ pc = "backprop"
    /\ node # 0
    /\ tree' = update(tree, node, NodeVal2(gameClone, tree[node].playerJustMoved))
    /\ node' = ParentOf(tree, node)
    /\ UNCHANGED <<pc, fen, gameClone, depth, result, elapsed, cycles, stops,
                   bestMove, calls, prev, cyc, sel, ui>>

\* line 191 fails: the pass of the while loop is complete
EndCycle ==
    /\ pc = "backprop"
    /\ node = 0
    /\ cycles' = cycles + 1
    /\ cyc' = NoCycle
    /\ pc' = "loop"
    /\ UNCHANGED <<fen, tree, node, gameClone, depth, result, elapsed, stops,
                   bestMove, calls, prev, sel, ui>>

\* lines 233-234: sort root.children in place and return
Return ==
    /\ pc = "best"
    /\ tree' = [tree EXCEPT ![1].children = SortByVisits(tree, @)]
    /\ bestMove' = RobustChild(tree)
    /\ pc' = "done"
    /\ UNCHANGED <<fen, node, gameClone, depth, result, elapsed, cycles, stops,
                   calls, prev, cyc, sel, ui>>

\* the positions getBestMoveMCTS is called with
Inputs == {Pos(k, n) : k \in {"open", "forced", "mate", "stale", "dead", "pair",
                                 "trade"},
                       n \in 0..1}

Next ==
    \/ \E f \in Inputs : ReturnGameOver(f)
    \/ \E f \in Inputs : BuildRoot(f)
    \/ \E t \in ClockReadings : StartCycle(t)
    \/ \E t \in ClockReadings : BudgetElapsed(t)
    \/ Select
    \/ SelectEnd
    \/ \E r \in 0..2 : Expand(r)
    \/ ExpandSkip
    \/ \E r \in 0..2 : Simulate(r)
    \/ SimulateEnd
    \/ Backpropagate
    \/ EndCycle
    \/ Return

Spec == Init /\ [][Next]_vars

\* the steps getBestMoveMCTS takes by itself once it was called
Run ==
    \/ \E t \in ClockReadings : StartCycle(t)
    \/ \E t \in ClockReadings : BudgetElapsed(t)
    \/ Select
    \/ SelectEnd
    \/ \E r \in 0..2 : Expand(r)
    \/ ExpandSkip
    \/ \E r \in 0..2 : Simulate(r)
    \/ SimulateEnd
    \/ Backpropagate
    \/ EndCycle
    \/ Return

\* the steps of one call
NextLive ==
    \/ \E f \in Inputs : calls = 0 /\ ReturnGameOver(f)
    \/ \E f \in Inputs : calls = 0 /\ BuildRoot(f)
    \/ Run

\* one call that runs to its end without being suspended: the function is
\* synchronous, and a clock that keeps advancing lets the condition of line
\* 137 hold for a limited number of passes only (MaxCycles here)
SpecLive == Init /\ [][NextLive]_vars /\ WF_vars(Run)

TypeOK ==
    /\ pc \in {"idle", "loop", "select", "expand", "simulate", "backprop", "best", "done"}
    /\ cycles \in 0..MaxCycles
    /\ calls \in 0..MaxCalls
    /\ depth \in 0..MAX_SIMULATION_DEPTH
    /\ result \in 0..100
    /\ node \in 0..Len(tree)

----------------------------------------------------------------------------
(* selectChild() on its own: a parent with visits and children of any      *)
(* statistics the tree can hold (no child visited more often than the      *)
(* parent, no more wins than visits).                                      *)

ChildStats ==
    {[visits |-> v, wins2 |-> w] : v \in 0..MaxVisits, w \in 0..(2 * MaxVisits)}

\* the tree of a parent with parentVisits visits and children of statistics kids
FamilyTree(parentVisits, kids) ==
    <<[parent |-> 0, children |-> [k \in 1..Len(kids) |-> k + 1],
       visits |-> parentVisits, wins2 |-> 0, move |-> NoMove,
       playerJustMoved |-> "b", untriedMoves |-> <<>>]>>
    \o [k \in 1..Len(kids) |->
          [parent |-> 1, children |-> <<>>, visits |-> kids[k].visits,
           wins2 |-> kids[k].wins2, move |-> "Qh5",
           playerJustMoved |-> "w", untriedMoves |-> <<>>]]

InitSelect ==
    /\ pc = "idle"
    /\ fen = NoPosition
    /\ tree = <<>>
    /\ node = 0
    /\ gameClone = Chess(NoPosition)
    /\ depth = 0
    /\ result = 0
    /\ elapsed = 0
    /\ cycles = 0
    /\ stops = {}
    /\ bestMove = NoMove
    /\ calls = 0
    /\ prev = NoCall
    /\ cyc = NoCycle
    /\ ui = AppInit
    /\ \E n \in 1..MaxKids, parentVisits \in 1..(MaxVisits + 1) :
         \E kids \in [1..n -> ChildStats] :
            /\ \A k \in 1..n : /\ kids[k].visits <= parentVisits
                               /\ kids[k].wins2 <= 2 * kids[k].visits
            /\ sel = [tree |-> FamilyTree(parentVisits, kids), picked |-> 0]

ApplySelectChild ==
    /\ sel.picked = 0
    /\ sel' = [sel EXCEPT !.picked = selectChild(sel.tree, 1)]
    /\ UNCHANGED <<pc, fen, tree, node, gameClone, depth, result, elapsed,
                   cycles, stops, bestMove, calls, prev, cyc, ui>>

NextSelect == ApplySelectChild

SpecSelect == InitSelect /\ [][NextSelect]_vars

----------------------------------------------------------------------------
(* The App component (src/unnamed/part_000).  Handlers of clicks run with   *)
(* the values of the last render; the updates of a click are rendered, and  *)
(* the effects of that render run, before the next event or timer.          *)

searchVars == <<pc, fen, tree, node, gameClone, depth, result, elapsed, cycles,
                stops, bestMove, calls, prev, cyc, sel>>

\* what getBestMoveMCTS(game.fen()) may return: null, or a legal move when
\* the game is not over in the position of the fen
SearchResults(g) ==
    IF IsGameOver(Chess(Fen(g))) THEN {NoMove}
    ELSE {NoMove} \cup {Moves(g)[k] : k \in 1..Len(Moves(g))}

\* a render: the handlers and effects to come close over the current state
Commit(u) ==
    [u EXCEPT !.shown = [game |-> u.game, fen |-> u.fen,
                         gameMode |-> u.gameMode,
                         isAiThinking |-> u.isAiThinking]]

\* the dependencies [fen, gameMode, game] of the render
Deps(u) ==
    [fen |-> u.shown.fen, gameMode |-> u.shown.gameMode, game |-> u.shown.game]

\* line 122: gameMode === 'PvAI' && game.turn() === 'b' && !game.isGameOver()
AiTurn(u) ==
    /\ u.shown.gameMode = "PvAI"
    /\ Turn(u.games[u.shown.game]) = "b"
    /\ ~IsGameOver(u.games[u.shown.game])

\* an effect without cleanup: the timer of the last run stays pending
CleanupNone(u) == u

\* line 139: the cleanup of the effect, clearTimeout(timer)
Cleanup(u) == [u EXCEPT !.timer = 0]

\* lines 121-141 after a render: when a dependency changed, the cleanup of
\* the last run and then the body of the effect
AiTurnEffect(u) ==
    IF Deps(u) = u.deps THEN u
    ELSE LET c == [Cleanup(u) EXCEPT !.deps = Deps(u)]
         IN  IF AiTurn(c)
             THEN [c EXCEPT !.isAiThinking = TRUE, !.timer = c.shown.game]
             ELSE c

\* a click handler that lets the user play either side against the AI
CanClickAnyTurn(u) ==
    /\ ~u.shown.isAiThinking
    /\ ~IsGameOver(u.games[u.shown.game])

\* lines 146-148: the click is not blocked
CanClick(u) ==
    /\ ~(u.shown.isAiThinking \/ IsGameOver(u.games[u.shown.game]))
    /\ ~(u.shown.gameMode = "PvAI" /\ Turn(u.games[u.shown.game]) = "b")

\* lines 144-175: a click on the target square of the legal move m of the
\* selected piece, then the render and its effects
onSquareClick(m) ==
    /\ CanClick(ui)
    /\ LET g == ui.shown.game
           game == ui.games[g]
       IN  /\ InSeq(m, Moves(game))
           /\ ui' = AiTurnEffect(Commit(
                      [ui EXCEPT !.games[g] = Move(game, m),
                                 !.fen = UiFen(Move(game, m)),
                                 !.ev = [NoEvent EXCEPT
                                           !.kind = "click", !.game = g,
                                           !.moved = TRUE, !.move = m,
                                           !.mode = ui.gameMode,
                                           !.turn = Turn(game),
                                           !.thinking = ui.isAiThinking]]))
    /\ UNCHANGED searchVars

\* lines 188-202 on state u: a new game
Reset(u) ==
    [u EXCEPT !.games = Append(@, Chess(StartPos)),
              !.game = Len(u.games) + 1,
              !.fen = UiFen(Chess(StartPos))]

\* line 229 or 243: the Reset button, then the render and its effects
handleReset ==
    /\ Len(ui.games) < MaxGames
    /\ ui' = AiTurnEffect(Commit(
               [Reset(ui) EXCEPT !.ev = [NoEvent EXCEPT !.kind = "reset"]]))
    /\ UNCHANGED searchVars

\* lines 307 and 313: a game-mode button, then the render and its effects
SwitchMode(mode) ==
    /\ Len(ui.games) < MaxGames
    /\ ui' = AiTurnEffect(Commit(
               [Reset(ui) EXCEPT !.gameMode = mode,
                                 !.ev = [NoEvent EXCEPT !.kind = "mode"]]))
    /\ UNCHANGED searchVars

\* lines 125-136: the timer fires; move is what getBestMoveMCTS returns
TimerFires(move) ==
    /\ ui.timer # 0
    /\ LET g == ui.timer
           game == ui.games[g]
           ev == [NoEvent EXCEPT !.kind = "ai", !.game = g, !.move = move,
                                 !.moved = (move # NoMove),
                                 !.searched = Fen(game),
                                 !.mode = ui.gameMode, !.turn = Turn(game),
                                 !.thinking = ui.isAiThinking]
       IN  /\ move \in SearchResults(game)
           /\ ui' = IF move # NoMove
                    THEN [ui EXCEPT !.games[g] = Move(game, move),
                                    !.fen = UiFen(Move(game, move)),
                                    !.isAiThinking = FALSE,
                                    !.timer = 0, !.ev = ev]
                    ELSE [ui EXCEPT !.isAiThinking = FALSE,
                                    !.timer = 0, !.ev = ev]
    /\ UNCHANGED searchVars

\* a render after updates made outside a click, and its effects
Render ==
    /\ Commit(ui) # ui
    /\ ui' = AiTurnEffect(Commit([ui EXCEPT !.ev = NoEvent]))
    /\ UNCHANGED searchVars

AppMoves == {"Nf3", "Nc3", "Kg2", "Qxf7"}

NextApp ==
    \/ \E m \in AppMoves : onSquareClick(m)
    \/ handleReset
    \/ \E mode \in {"PvP", "PvAI"} : SwitchMode(mode)
    \/ \E move \in AppMoves \cup {NoMove} : TimerFires(move)
    \/ Render

\* what runs without the user: a timer that was set and not cleared fires,
\* and React renders the updates it has
AppRuns ==
    \/ \E move \in AppMoves \cup {NoMove} : TimerFires(move)
    \/ Render

SpecApp == Init /\ [][NextApp]_vars /\ WF_vars(AppRuns)

----------------------------------------------------------------------------
(* Properties *)

AtBoundary == pc \in {"loop", "best", "done"} /\ tree # <<>>

Nodes == 1..Len(tree)

RootChildren == {tree[1].children[k] : k \in 1..Len(tree[1].children)}

RECURSIVE NodePosition(_)
\* the position of node i: the moves on its path replayed from the input
NodePosition(i) ==
    IF tree[i].parent = 0 THEN fen
    ELSE PosAfter(NodePosition(tree[i].parent), tree[i].move)

RECURSIVE NodeDepth(_)
NodeDepth(i) == IF tree[i].parent = 0 THEN 0 ELSE 1 + NodeDepth(tree[i].parent)

\* C1: a call on a position where the game is over returns null, without
\* having built a root node and without a pass of the search loop
C1_TerminalReturnsNull ==
    (pc = "done" /\ IsGameOver(Chess(fen)))
        => (bestMove = NoMove /\ tree = <<>> /\ cycles = 0)

\* a call on a drawn position that still has a legal move has returned
C1_Witness ==
    pc = "done" /\ IsGameOver(Chess(fen)) /\ Len(Moves(Chess(fen))) > 0

\* C2: a move returned by a call is one of the legal moves of the position
\* the call was given
C2_ReturnedMoveIsLegal ==
    (pc = "done" /\ bestMove # NoMove) => InSeq(bestMove, Moves(Chess(fen)))

\* a move was returned from a tree that holds a node below a child of root
C2_Witness ==
    /\ pc = "done" /\ bestMove # NoMove
    /\ \E i \in Nodes : NodeDepth(i) = 2 /\ ~InSeq(tree[i].move, Moves(Chess(fen)))

\* C3: a call on a position where the game is not over and exactly one move
\* is legal returns that move, whatever the clock did
C3_SingleMoveReturned ==
    (pc = "done" /\ ~IsGameOver(Chess(fen)) /\ Len(Moves(Chess(fen))) = 1)
        => bestMove = Moves(Chess(fen))[1]

\* C4: between passes of the loop and when the call has returned, no node
\* has more visits than its parent
C4_VisitsAtMostParent ==
    AtBoundary =>
        \A i \in Nodes :
            tree[i].parent # 0 => tree[i].visits <= tree[tree[i].parent].visits

\* a finished search with a child of root visited less often than root and
\* a node below it
C4_Witness ==
    /\ pc = "done" /\ tree # <<>>
    /\ \E i \in Nodes : NodeDepth(i) = 2 /\ tree[i].visits >= 1
    /\ \E i \in Nodes : NodeDepth(i) = 1 /\ tree[i].visits < tree[1].visits

\* C5: between passes of the loop and when the call has returned, the visits
\* of root are the number of passes completed
C5_RootVisitsAreCycles ==
    AtBoundary => tree[1].visits = cycles

\* a search that returned after several passes
C5_Witness == pc = "done" /\ tree # <<>> /\ cycles >= 2 /\ tree[1].visits >= 2

\* C6: for every node, in every state, the untried moves followed by the
\* moves of the children are the legal moves of the node's position, each
\* exactly once
C6_UntriedAndChildrenPartition ==
    \A i \in Nodes :
        LET legal == PosMoves(NodePosition(i))
            kids == tree[i].children
            all == tree[i].untriedMoves \o [k \in 1..Len(kids) |-> tree[kids[k]].move]
        IN  /\ Len(all) = Len(legal)
            /\ \A m \in 1..Len(legal) : InSeq(legal[m], all)
            /\ \A a, b \in 1..Len(all) : a # b => all[a] # all[b]

\* a node below root with a child and with a move still untried
C6_Witness ==
    \E i \in Nodes :
        /\ tree[i].parent # 0
        /\ Len(tree[i].children) > 0
        /\ Len(tree[i].untriedMoves) > 0

\* C7: selectChild never returns a visited child while a sibling is unvisited
C7_UnvisitedFirst ==
    sel.picked # 0 =>
        ~(/\ sel.tree[sel.picked].visits > 0
          /\ \E c \in 2..Len(sel.tree) : sel.tree[c].visits = 0)

\* selectChild picked an unvisited child that comes after a visited one with
\* the best possible record
C7_Witness ==
    /\ sel.picked > 2
    /\ sel.tree[sel.picked].visits = 0
    /\ sel.tree[2].visits > 0
    /\ sel.tree[2].wins2 = 2 * sel.tree[2].visits

\* C8: two invocations on one position with one seed and one budget return
\* the same move.  With one seed the two make the same random draws and
\* differ only in the budget check at which the clock ends the loop, so the
\* value returned is the value the return statement yields at every earlier
\* budget check of the call
C8_Deterministic ==
    pc = "done" => \A m \in stops : m = bestMove

\* C9: a search that ends with children of root returns the move of a child
\* of root with the most visits, the one created first among those
C9_RobustChildFirstMax ==
    (pc = "done" /\ tree # <<>> /\ RootChildren # {}) =>
        \E c \in RootChildren :
            /\ bestMove = tree[c].move
            /\ \A d \in RootChildren :
                  /\ tree[d].visits <= tree[c].visits
                  /\ tree[d].visits = tree[c].visits => c <= d

\* a search ended with two children of root sharing the most visits, and one
\* with fewer created before them
C9_Witness ==
    /\ pc = "done" /\ tree # <<>>
    /\ \E c, d \in RootChildren :
          /\ c < d
          /\ tree[c].visits = tree[d].visits
          /\ \A e \in RootChildren : tree[e].visits <= tree[c].visits
          /\ bestMove = tree[c].move

\* C10: every call starts its search from a tree of one node, root, with no
\* visits, no wins and no children, whatever the calls before it built
C10_FreshTree ==
    (pc = "loop" /\ cycles = 0) =>
        /\ Len(tree) = 1
        /\ tree[1].parent = 0
        /\ tree[1].visits = 0
        /\ tree[1].wins2 = 0
        /\ tree[1].children = <<>>
        /\ tree[1].move = NoMove
        /\ tree[1].untriedMoves = Moves(Chess(fen))

\* a second call is about to search after a call that returned a move
C10_Witness ==
    /\ pc = "loop" /\ cycles = 0
    /\ calls >= 2
    /\ prev.move # NoMove

\* the heuristic of the running pass before it is clamped, times 100
Unclamped == 50 + Score(Board(gameClone), tree[cyc.leaf].playerJustMoved)

\* C11: the result of a simulation is always within 0..1 (times 100 here),
\* also when the material heuristic 0.5 + score / 100 of a simulation cut
\* off by the depth cap is outside, and every step adds a value within 0..1
\* (times 2 here) to the wins of a node, or nothing
C11_ValuesWithinUnit ==
    [][/\ result' \in 0..100
       /\ pc = "backprop" =>
            \A i \in 1..Len(tree) :
                tree'[i].wins2 - tree[i].wins2 \in 0..2]_vars

\* a simulation was cut off by the depth cap with a material balance that
\* puts 0.5 + score / 100 above 1, and its backpropagation has credited root
C11_Witness ==
    /\ pc = "backprop" /\ node = 0
    /\ depth = MAX_SIMULATION_DEPTH /\ ~IsGameOver(gameClone)
    /\ Unclamped > 100
    /\ result = 100
    /\ tree[1].wins2 = cyc.pre[1].wins2 + 1

\* the first child of node p whose uctValue no other child of p exceeds
FirstMaximum(tr, p) ==
    LET kids == tr[p].children
        top(k) == \A j \in 1..Len(kids) : NodeUct(tr, kids[j]) <= NodeUct(tr, kids[k])
    IN  kids[CHOOSE k \in 1..Len(kids) :
                top(k) /\ \A j \in 1..(k - 1) : ~top(j)]

\* C12: every step of the selection descends to the first child, in the order
\* of children, among those of maximal uctValue
C12_TieFirstEncountered ==
    [][(pc = "select" /\ pc' = "select" /\ node' # node)
          => node' = FirstMaximum(tree, node)]_vars

RECURSIVE PathToRoot(_, _)
\* the nodes from node i up to root in tree tr
PathToRoot(tr, i) ==
    IF i = 0 THEN {} ELSE {i} \cup PathToRoot(tr, tr[i].parent)

\* the outcome of the simulation for colour c, times 2: checkmate is won by
\* the side that is not to move, everything else counts one half
OutcomeFor(c) ==
    IF gameClone.pos.k = "mate"
    THEN (IF PosTurn(gameClone.pos) # c THEN 2 ELSE 0)
    ELSE 1

BackpropagationDone == pc = "backprop" /\ node = 0

\* C13: when a backpropagation is complete, every node on the path from the
\* node it started at up to root has one visit more and its wins raised by
\* its value, and every other node has the visits and wins it had before
C13_BackpropagationPath ==
    BackpropagationDone =>
        /\ Len(tree) = Len(cyc.pre)
        /\ cyc.leaf = (IF Len(cyc.pre) > Len(cyc.start)
                       THEN Len(cyc.pre) ELSE cyc.stop)
        /\ 1 \in PathToRoot(cyc.pre, cyc.leaf)
        /\ \A i \in 1..Len(tree) :
              IF i \in PathToRoot(cyc.pre, cyc.leaf)
              THEN /\ tree[i].visits = cyc.pre[i].visits + 1
                   /\ tree[i].wins2 = cyc.pre[i].wins2
                                        + OutcomeFor(tree[i].playerJustMoved)
              ELSE /\ tree[i].visits = cyc.pre[i].visits
                   /\ tree[i].wins2 = cyc.pre[i].wins2

\* a backpropagation over three nodes is complete in a tree that holds a
\* node beside the path, and the simulation ended in checkmate
C13_Witness ==
    /\ BackpropagationDone
    /\ Cardinality(PathToRoot(cyc.pre, cyc.leaf)) = 3
    /\ Len(tree) > 3
    /\ IsCheckmate(gameClone)

\* the simulation of the running pass stopped at the depth limit
CutOff == depth = MAX_SIMULATION_DEPTH /\ ~IsGameOver(gameClone)

PhaseOrder ==
    {<<"idle", "loop">>, <<"idle", "done">>, <<"done", "loop">>,
     <<"done", "done">>, <<"loop", "select">>, <<"loop", "best">>,
     <<"select", "select">>, <<"select", "expand">>, <<"expand", "simulate">>,
     <<"simulate", "simulate">>, <<"simulate", "backprop">>,
     <<"backprop", "backprop">>, <<"backprop", "loop">>, <<"best", "done">>}

\* C15: the clock is read only between two passes of the loop; a pass that
\* has started goes through selection, expansion, simulation and the
\* backpropagation up to root before the next reading; the loop is left at
\* the first reading that is not below the budget, with the tree as the last
\* complete pass left it
C15_BudgetBetweenCycles ==
    [][/\ <<pc, pc'>> \in PhaseOrder
       /\ elapsed' # elapsed => pc \in {"idle", "done", "loop"}
       /\ pc = "loop" =>
             /\ tree' = tree
             /\ pc' = (IF elapsed' >= TIME_LIMIT_MS THEN "best" ELSE "select")
       /\ (pc = "backprop" /\ pc' = "loop") =>
             /\ node = 0 /\ tree' = tree
             /\ tree[1].visits = cyc.start[1].visits + 1
             /\ cycles' = cycles + 1]_vars

\* the loop has been left after two complete passes at a reading of the clock
\* that equals the budget
C15_Witness ==
    /\ pc = "best"
    /\ elapsed = TIME_LIMIT_MS
    /\ cycles = 2 /\ tree[1].visits = 2
    /\ cyc = NoCycle

\* C16: the call returns no move exactly when root has no child at the end;
\* for a position where the game is not over that is exactly when no pass of
\* the loop was completed, and after a completed pass root has a child and
\* its move is returned
C16_NullIffNoChildren ==
    pc = "done" =>
        /\ bestMove = NoMove <=> (tree = <<>> \/ tree[1].children = <<>>)
        /\ ~IsGameOver(Chess(fen)) =>
              /\ tree # <<>>
              /\ bestMove = NoMove <=> cycles = 0
              /\ cycles >= 1 =>
                    /\ tree[1].children # <<>>
                    /\ \E k \in 1..Len(tree[1].children) :
                          bestMove = tree[tree[1].children[k]].move

\* a call for a position with legal moves returned without a complete pass
C16_Witness ==
    /\ pc = "done"
    /\ ~IsGameOver(Chess(fen)) /\ Moves(Chess(fen)) # <<>>
    /\ cycles = 0
    /\ tree # <<>> /\ tree[1].children = <<>>
    /\ bestMove = NoMove

\* the shape of node i of tree tr: its place, its children, its untried moves
NodeShape(tr, i) ==
    [parent |-> tr[i].parent, move |-> tr[i].move,
     children |-> tr[i].children, untriedMoves |-> tr[i].untriedMoves]

\* the shape of tree tr
Shape(tr) == [i \in 1..Len(tr) |-> NodeShape(tr, i)]

\* C17: the selection of a pass stops at a node with untried moves or without
\* children; when the game is over there or the node has no untried move, the
\* pass leaves the shape of the tree as it was; otherwise the pass adds one
\* node, as the last child of that node, for one of its untried moves
C17_ExpansionAtStop ==
    pc \in {"simulate", "backprop"} =>
        LET before == cyc.start
            stop == cyc.stop
            new == Len(before) + 1
        IN  /\ stop \in 1..Len(before)
            /\ before[stop].untriedMoves # <<>> \/ before[stop].children = <<>>
            /\ IF cyc.stopOver \/ before[stop].untriedMoves = <<>>
               THEN Shape(tree) = Shape(before)
               ELSE /\ Len(tree) = new
                    /\ tree[new].parent = stop
                    /\ tree[new].children = <<>>
                    /\ InSeq(tree[new].move, before[stop].untriedMoves)
                    /\ tree[stop].children = Append(before[stop].children, new)
                    /\ tree[stop].untriedMoves
                         = Filter(before[stop].untriedMoves, tree[new].move)
                    /\ \A i \in 1..Len(before) :
                          i # stop => NodeShape(tree, i) = NodeShape(before, i)

\* a pass whose selection stopped at a node that has an untried move but
\* where the game is over is complete, and added no node
C17_Witness ==
    /\ BackpropagationDone
    /\ cyc.stopOver
    /\ cyc.start[cyc.stop].untriedMoves # <<>>
    /\ cyc.stop # 1
    /\ Shape(tree) = Shape(cyc.start)

\* C18: a simulation never plays more than MAX_SIMULATION_DEPTH moves and
\* plays fewer only when the game is over, no node is its own ancestor, and
\* every call that builds a root returns
C18_SearchTerminates ==
    /\ [](depth <= MAX_SIMULATION_DEPTH)
    /\ [](pc = "backprop" => CutOff \/ IsGameOver(gameClone))
    /\ [](\A i \in 1..Len(tree) : tree[i].parent < i)
    /\ (pc \notin {"idle", "done"}) ~> (pc = "done")

\* a call has returned after two passes, the last with a simulation that
\* played MAX_SIMULATION_DEPTH moves without ending the game
C18_Witness ==
    /\ pc = "done"
    /\ depth = MAX_SIMULATION_DEPTH
    /\ cycles >= 2
    /\ CutOff

\* C19 as stated: in every state, the states inside a backpropagation
\* included, no node has more visits than its parent
C19_VisitsNeverAboveParent ==
    \A i \in Nodes :
        tree[i].parent # 0 => tree[i].visits <= tree[tree[i].parent].visits

\* C19: a node has more visits than its parent only inside a backpropagation
\* and only below root: it is then the child of root updated last, root is
\* the node updated next, and the child has one visit more than root
C19_VisitsAboveParentOnlyInside ==
    \A i \in Nodes :
        (tree[i].parent # 0 /\ tree[i].visits > tree[tree[i].parent].visits) =>
            /\ pc = "backprop"
            /\ tree[i].parent = 1 /\ node = 1
            /\ i \in PathToRoot(cyc.pre, cyc.leaf)
            /\ tree[i].visits = cyc.pre[i].visits + 1
            /\ tree[i].visits = tree[1].visits + 1

\* inside a backpropagation of a later pass the child of root has been
\* updated, root has not, and the child has more visits than root
C19_Witness ==
    /\ pc = "backprop"
    /\ node = 1
    /\ tree[1].visits >= 1
    /\ \E i \in Nodes :
          /\ tree[i].parent = 1
          /\ tree[i].visits = tree[1].visits + 1
          /\ cyc.leaf # i

\* C20: between passes of the loop and when the call has returned, a node
\* below root that was visited twice or more has a parent with no untried
\* move left, so every sibling of it exists and was visited
C20_ExpandBeforeRevisit ==
    AtBoundary =>
        \A i \in Nodes :
            (tree[i].parent # 0 /\ tree[i].visits >= 2) =>
                LET p == tree[i].parent
                IN  /\ tree[p].untriedMoves = <<>>
                    /\ \A k \in 1..Len(tree[p].children) :
                          tree[tree[p].children[k]].visits >= 1

\* between two passes a node visited twice has two siblings
C20_Witness ==
    /\ pc = "loop"
    /\ tree # <<>>
    /\ \E i \in Nodes :
          /\ tree[i].parent # 0 /\ tree[i].visits >= 2
          /\ Len(tree[tree[i].parent].children) = 3

\* the moves node i was built with and has not lost: its untried moves and
\* the moves of its children
NodeMoves(i) ==
    {tree[i].untriedMoves[k] : k \in 1..Len(tree[i].untriedMoves)}
        \cup {tree[tree[i].children[k]].move : k \in 1..Len(tree[i].children)}

\* the legal moves of game g
LegalMoves(g) == {Moves(g)[k] : k \in 1..Len(Moves(g))}

\* C21: the move replayed at a step of the selection, the move picked at the
\* expansion and each move of the simulation are legal moves of the game they
\* are applied to; while the pass is at a node, the game replayed is in the
\* position of that node, with the node's moves as its legal moves
C21_AppliedMovesLegal ==
    /\ []((pc \in {"select", "expand"} \/ (pc = "simulate" /\ depth = 0)) =>
            /\ gameClone.pos = NodePosition(node)
            /\ NodeMoves(node) = LegalMoves(gameClone)
            /\ Turn(gameClone) # tree[node].playerJustMoved)
    /\ [][/\ (pc = "select" /\ node' # node) =>
                /\ tree[node'].move \in LegalMoves(gameClone)
                /\ gameClone' = Move(gameClone, tree[node'].move)
          /\ (pc = "expand" /\ node' # node) =>
                /\ tree'[node'].move \in LegalMoves(gameClone)
                /\ gameClone' = Move(gameClone, tree'[node'].move)
          /\ (pc = "simulate" /\ gameClone' # gameClone) =>
                \E m \in LegalMoves(gameClone) : gameClone' = Move(gameClone, m)
          /\ (pc \in {"backprop", "best"}) => gameClone' = gameClone]_vars

\* in one pass a move was replayed in the descent, a move was picked at the
\* expansion and a move was played in the simulation
C21_Witness ==
    /\ pc = "simulate"
    /\ depth >= 1
    /\ cyc.stop # 1
    /\ Len(tree) > Len(cyc.start)
    /\ node = Len(tree)

\* selectChild() is about to be called on the node of the running pass
SelectChildDue == pc = "select" /\ FullyExpanded(tree, node)

\* C22: when selectChild() is called, the node and each of its children have
\* at least one visit, and no child has more visits than the node; between
\* passes and when the call has returned, the wins of every node are between
\* 0 and its visits
C22_UctWellDefined ==
    /\ SelectChildDue =>
          /\ tree[node].visits >= 1
          /\ \A k \in 1..Len(tree[node].children) :
                LET c == tree[node].children[k]
                IN  tree[c].visits >= 1 /\ tree[c].visits <= tree[node].visits
    /\ AtBoundary =>
          \A i \in Nodes :
              0 <= tree[i].wins2 /\ tree[i].wins2 <= 2 * tree[i].visits

\* selectChild() is called on a node below root that has two children, one
\* of them with nothing but wins
C22_Witness ==
    /\ SelectChildDue
    /\ node # 1
    /\ Len(tree[node].children) = 2
    /\ \E k \in 1..2 :
          LET c == tree[node].children[k]
          IN  tree[c].wins2 = 2 * tree[c].visits

RECURSIVE SumVisits(_, _)
\* the visits of the nodes in the list kids of tree tr, added up
SumVisits(tr, kids) ==
    IF kids = <<>> THEN 0
    ELSE tr[kids[1]].visits + SumVisits(tr, Tail(kids))

\* the visits of node i of tr that were not passed on from a child
OwnVisits(tr, i) == tr[i].visits - SumVisits(tr, tr[i].children)

\* C23: between passes and when the call has returned, the visits of root are
\* the sum of the visits of its children, and every other node has at least
\* one visit more than its children together; a complete pass adds one such
\* visit to the node where its selection and expansion ended and to no other
C23_VisitConservation ==
    /\ AtBoundary =>
          /\ OwnVisits(tree, 1) = 0
          /\ \A i \in Nodes : i # 1 => OwnVisits(tree, i) >= 1
    /\ BackpropagationDone =>
          LET before == cyc.start
              was(i) == IF i <= Len(before) THEN OwnVisits(before, i) ELSE 0
          IN  \A i \in Nodes :
                  OwnVisits(tree, i) = was(i) + (IF i = cyc.leaf THEN 1 ELSE 0)

\* a pass is complete that ended, for the second time, at a node that has
\* no children, below a root with three children
C23_Witness ==
    /\ BackpropagationDone
    /\ cyc.leaf # 1
    /\ Len(tree) = Len(cyc.start)
    /\ OwnVisits(tree, cyc.leaf) = 2
    /\ tree[1].visits = 4 /\ Len(tree[1].children) = 3

\* C24: whenever isAiThinking is true it is false again later
C24_ThinkingEnds == ui.isAiThinking ~> ~ui.isAiThinking

\* isAiThinking is true, no timer is pending and no render is due
Blocked == ui.isAiThinking /\ ui.timer = 0 /\ Commit(ui) = ui

\* once the App is blocked, no click, reset, mode switch, timer or render
\* gets it out of that state
BlockedForever == [][Blocked => Blocked']_vars

\* the App is blocked in a game where white, the user, is to move
BlockedReached ==
    Blocked /\ ui.gameMode = "PvAI" /\ Turn(ui.games[ui.game]) = "w"
            /\ ~IsGameOver(ui.games[ui.game])

\* C25: a timer that is pending belongs to the current game; when it fires,
\* the move returned is a legal move of the game whose fen was searched and
\* is applied to that game, the current one, and to no other; a click
\* against the AI makes a move only when white is to move and isAiThinking
\* is false
C25_AiMoveOnSearchedGame ==
    [][/\ ui.timer # 0 => ui.timer = ui.game
       /\ (ui.timer # 0 /\ ui'.ev.kind = "ai") =>
             LET g == ui.timer
             IN  /\ ui'.game = g
                 /\ ui'.ev.searched = Fen(ui.games[g])
                 /\ \A h \in 1..Len(ui.games) :
                       h # g => ui'.games[h] = ui.games[h]
                 /\ IF ui'.ev.moved
                    THEN /\ InSeq(ui'.ev.move, Moves(ui.games[g]))
                         /\ ui'.games[g] = Move(ui.games[g], ui'.ev.move)
                         /\ ui'.fen = UiFen(ui'.games[ui'.game])
                    ELSE ui'.games[g] = ui.games[g]
       /\ (ui'.ev.kind = "click" /\ ui' # ui /\ ui.gameMode = "PvAI") =>
             /\ Turn(ui.games[ui.game]) = "w"
             /\ ~ui.isAiThinking
             /\ ui.timer = 0]_vars

\* a reset or mode switch came while the timer was pending for a game where
\* black was to move: the timer is gone and that game was left as it was
C25_Witness ==
    /\ ui.ev.kind \in {"reset", "mode"}
    /\ ui.game > 1
    /\ ui.isAiThinking /\ ui.timer = 0
    /\ Turn(ui.games[ui.game - 1]) = "b"
    /\ ~IsGameOver(ui.games[ui.game - 1])
    /\ ui.games[ui.game] = Chess(StartPos)

====
